---- MODULE Spec2Model ----
(***************************************************************************)
(* RelationsService (api/src/services/relations.ts): reconciliation of     *)
(* physical foreign-key constraints with rows of directus_relations, and   *)
(* the access filter applied to relation descriptors.                      *)
(*                                                                         *)
(* The database, the metadata store, the schema reader with its relation   *)
(* cache, the stitcher and the permission oracle are collaborators; they   *)
(* are modelled by their contracts.  A statement issued inside the         *)
(* callback of alterTable is taken to be executed in the order it is       *)
(* issued, a transaction to be serialised against other transactions.     *)
(***************************************************************************)
EXTENDS Naturals, Sequences, FiniteSets, TLC

VARIABLES
    fks,        \* durable physical foreign-key constraints
    metaRows,   \* durable rows of directus_relations
    dbType,     \* storage type of every column
    cache,      \* relation cache of the schema reader, per (collection, field)
    pc,         \* per call slot: position in the handler
    op,         \* per call slot: the operation and its arguments
    existing,   \* per call slot: existingRelation found by validation
    runPost,    \* per call slot: runPostColumnChange
    outcome,    \* per call slot: how the operation ended
    trace,      \* per call slot: hooks, transaction and cache events, in order
    ret,        \* per call slot: relations returned by a read
    fin,        \* input list given to filterForbidden
    facc,       \* accountability filterForbidden runs under
    fout        \* list filterForbidden returned

vars == <<fks, metaRows, dbType, cache, pc, op, existing, runPost, outcome,
          trace, ret, fin, facc, fout>>

dbVars == <<fks, metaRows, dbType>>
procVars == <<pc, op, existing, runPost, outcome, trace, ret>>
filterVars == <<fin, facc, fout>>

(***************************************************************************)
(* Bounds of the model.                                                    *)
(***************************************************************************)
MaxRows == 2
MaxList == 2

(***************************************************************************)
(* Values.                                                                 *)
(***************************************************************************)
NULL == "null"

Collections == {"articles", "authors"}

Fields(c) ==
    IF c = "articles" THEN {"id", "author_id"}
    ELSE IF c = "authors" THEN {"id"}
    ELSE {}

Primary(c) == "id"

Pairs == UNION {{<<c, f>> : f \in Fields(c)} : c \in Collections}

getDefaultIndexName(kind, collection, field) == <<kind, collection, field>>

NoName == <<>>
CustomName == <<"foreign", "legacy", "fk">>

NoSchema == [present |-> FALSE, constraint_name |-> NoName, on_delete |-> NULL]

NoMeta == [id |-> 0, many_collection |-> NULL, many_field |-> NULL,
           one_collection |-> NULL, one_field |-> NULL,
           one_allowed_collections |-> {}]

NoRel == [collection |-> NULL, field |-> NULL, related_collection |-> NULL,
          schema |-> NoSchema, meta |-> NoMeta]

Invalid == [NoRel EXCEPT !.collection = "invalid"]

HasMeta(m) == m # NoMeta

systemRelationRows ==
    { [id |-> 0, many_collection |-> "directus_files", many_field |-> "folder",
       one_collection |-> "directus_folders", one_field |-> NULL,
       one_allowed_collections |-> {}] }

(***************************************************************************)
(* The database: foreign keys, rows of directus_relations, column types.   *)
(* A statement either yields the next database or an error.                *)
(***************************************************************************)
DB(f, m, t) == [fks |-> f, meta |-> m, types |-> t]

FreshId(rows) == CHOOSE i \in 1..(Cardinality(rows) + 1) : \A r \in rows : r.id # i

Patch(row, patch) ==
    [id |-> row.id,
     many_collection |-> IF patch.many_collection # NULL THEN patch.many_collection
                         ELSE row.many_collection,
     many_field |-> IF patch.many_field # NULL THEN patch.many_field ELSE row.many_field,
     one_collection |-> IF patch.one_collection # NULL THEN patch.one_collection
                        ELSE row.one_collection,
     one_field |-> IF patch.one_field # NULL THEN patch.one_field ELSE row.one_field,
     one_allowed_collections |->
         IF patch.one_allowed_collections # {} THEN patch.one_allowed_collections
         ELSE row.one_allowed_collections]

Ok(db) == [db |-> db, err |-> "none"]
Fail(db, e) == [db |-> db, err |-> e]

Apply(s, db) ==
    CASE s.k = "alterType" ->
           IF <<s.c, s.f>> \in Pairs
           THEN Ok([db EXCEPT !.types[<<s.c, s.f>>] = s.to])
           ELSE Fail(db, "DbError")
      [] s.k = "dropForeign" ->
           IF \E x \in db.fks : x.collection = s.c /\ x.name = s.name
           THEN Ok([db EXCEPT !.fks = {x \in db.fks :
                                          ~(x.collection = s.c /\ x.name = s.name)}])
           ELSE Fail(db, "DbError")
      [] s.k = "foreign" ->
           IF \/ \E x \in db.fks : x.collection = s.c /\ x.name = s.name
              \/ db.types[<<s.c, s.f>>] # db.types[<<s.ref, Primary(s.ref)>>]
           THEN Fail(db, "DbError")
           ELSE Ok([db EXCEPT !.fks = @ \cup
                      {[collection |-> s.c, column |-> s.f, related |-> s.ref,
                        name |-> s.name, on_delete |-> s.on_delete]}])
      [] s.k = "insertMeta" ->
           Ok([db EXCEPT !.meta = @ \cup {[s.row EXCEPT !.id = FreshId(db.meta)]}])
      [] s.k = "updateMeta" ->
           Ok([db EXCEPT !.meta = {IF r.id = s.id THEN Patch(r, s.row) ELSE r : r \in @}])
      [] s.k = "deleteMeta" ->
           Ok([db EXCEPT !.meta = {r \in @ : ~(r.many_collection = s.c
                                               /\ r.many_field = s.f)}])
      [] OTHER -> Fail(db, "TypeError")

(***************************************************************************)
(* knex.transaction: the statements of the callback run in order against   *)
(* the transaction's view w; a statement on the plain connection is        *)
(* durable at once.  The first failing statement (or an injected database  *)
(* fault at statement number fault, Len + 1 for the commit) rolls the      *)
(* transaction back: the durable database d is what stays.                 *)
(***************************************************************************)
Settled(db, e, n) == [db |-> db, err |-> e, n |-> n]

RECURSIVE RunStmts(_, _, _, _, _)
RunStmts(stmts, i, d, w, fault) ==
    IF fault = i THEN Settled(d, "Fault", i - 1)
    ELSE IF i > Len(stmts) THEN Settled(w, "none", i - 1)
    ELSE LET s == stmts[i]
             r == Apply(s, IF s.conn = "trx" THEN w ELSE d)
         IN IF r.err # "none" THEN Settled(d, r.err, i - 1)
            ELSE IF s.conn = "trx" THEN RunStmts(stmts, i + 1, d, r.db, fault)
            ELSE RunStmts(stmts, i + 1, r.db, Apply(s, w).db, fault)

Transaction(stmts, d, fault) == RunStmts(stmts, 1, d, d, fault)

(***************************************************************************)
(* stitchRelations and the reads of the two stores.                        *)
(***************************************************************************)
RECURSIVE SeqOf(_)
SeqOf(S) == IF S = {} THEN <<>>
            ELSE LET x == CHOOSE y \in S : TRUE IN <<x>> \o SeqOf(S \ {x})

RECURSIVE ById(_)
ById(rows) == IF rows = {} THEN <<>>
              ELSE LET x == CHOOSE y \in rows : \A z \in rows : y.id <= z.id
                   IN <<x>> \o ById(rows \ {x})

SchemaOf(fk) == [present |-> TRUE, constraint_name |-> fk.name, on_delete |-> fk.on_delete]

Matches(row, fk) == row.many_collection = fk.collection /\ row.many_field = fk.column

stitchRelations(metaSeq, schemaSeq) ==
    LET fromMeta(row) ==
            LET hit == {i \in 1..Len(schemaSeq) : Matches(row, schemaSeq[i])}
                fk == schemaSeq[CHOOSE i \in hit : \A j \in hit : i <= j]
            IN IF hit = {}
               THEN [collection |-> row.many_collection, field |-> row.many_field,
                     related_collection |-> row.one_collection,
                     schema |-> NoSchema, meta |-> row]
               ELSE [collection |-> fk.collection, field |-> fk.column,
                     related_collection |-> fk.related,
                     schema |-> SchemaOf(fk), meta |-> row]
        fromSchema(fk) ==
            [collection |-> fk.collection, field |-> fk.column,
             related_collection |-> fk.related, schema |-> SchemaOf(fk), meta |-> NoMeta]
        unmatched == SelectSeq(schemaSeq,
                        LAMBDA fk : \A i \in 1..Len(metaSeq) : ~Matches(metaSeq[i], fk))
    IN [i \in 1..Len(metaSeq) |-> fromMeta(metaSeq[i])]
       \o [i \in 1..Len(unmatched) |-> fromSchema(unmatched[i])]

foreignKeys(f, collection) ==
    SeqOf({x \in f : collection = NULL \/ x.collection = collection})

readByQuery(m, collection, field) ==
    ById({r \in m : /\ collection = NULL \/ r.many_collection = collection
                    /\ field = NULL \/ r.many_field = field})

(***************************************************************************)
(* The schema reader: relations of a collection, kept per field in the     *)
(* relation cache until the entry is invalidated.                          *)
(***************************************************************************)
Load(c, f, fk, m) ==
    LET rows == readByQuery(m, c, f)
        keys == SelectSeq(foreignKeys(fk, c), LAMBDA x : x.column = f)
        st == stitchRelations(IF rows = <<>> THEN <<>> ELSE <<rows[1]>>,
                              IF keys = <<>> THEN <<>> ELSE <<keys[1]>>)
    IN IF st = <<>> THEN NoRel ELSE st[1]

CacheKeys == {p \in Pairs : p[2] # Primary(p[1])}

getRelationsForField(c, f, ch, fk, m) ==
    IF <<c, f>> \in CacheKeys /\ ch[<<c, f>>] # Invalid THEN ch[<<c, f>>]
    ELSE Load(c, f, fk, m)

FillField(c, f, ch, fk, m) ==
    [p \in CacheKeys |-> IF p = <<c, f>> THEN getRelationsForField(c, f, ch, fk, m)
                         ELSE ch[p]]

FillCollection(c, ch, fk, m) ==
    [p \in CacheKeys |-> IF p[1] = c THEN getRelationsForField(c, p[2], ch, fk, m)
                         ELSE ch[p]]

setHashFull(c, ch) == [p \in CacheKeys |-> IF p[1] = c THEN Invalid ELSE ch[p]]

clearRelationsForField(c, f, ch) ==
    [p \in CacheKeys |-> IF p = <<c, f>> THEN Invalid ELSE ch[p]]

(***************************************************************************)
(* Accountability and the access filter.                                   *)
(***************************************************************************)
Perm(a, c, fs) == [action |-> a, collection |-> c, fields |-> fs]

NullAcc == [kind |-> "null", permissions |-> <<>>]
AdminAcc == [kind |-> "admin", permissions |-> <<>>]
UserAcc(perms) == [kind |-> "user", permissions |-> perms]

IsRestricted(acc) == acc.kind = "user"

hasReadAccess(acc) ==
    \E i \in 1..Len(acc.permissions) :
        /\ acc.permissions[i].collection = "directus_relations"
        /\ acc.permissions[i].action = "read"

IsReadPermission(permission) == permission.action = "read"

allowedCollections(acc) ==
    {acc.permissions[i].collection :
        i \in {j \in 1..Len(acc.permissions) : IsReadPermission(acc.permissions[j])}}

getAllowedFields(acc, action, c) ==
    UNION {acc.permissions[i].fields :
        i \in {j \in 1..Len(acc.permissions) :
                  /\ acc.permissions[j].action = action
                  /\ acc.permissions[j].collection = c}}

HasAllowedFields(acc, action, c) ==
    \E i \in 1..Len(acc.permissions) :
        acc.permissions[i].action = action /\ acc.permissions[i].collection = c

RelatedCollectionUnchecked(acc, relation) == TRUE

RelatedCollectionAllowed(acc, relation) ==
    ~(relation.related_collection # NULL
      /\ relation.related_collection \notin allowedCollections(acc))

collectionsAllowed(acc, relation) ==
    /\ relation.collection \in allowedCollections(acc)
    /\ RelatedCollectionAllowed(acc, relation)
    /\ ~(/\ relation.meta.one_allowed_collections # {}
         /\ ~(\A c \in relation.meta.one_allowed_collections : c \in allowedCollections(acc)))

OwnFieldAllowed(acc, relation) ==
    ~(\/ ~HasAllowedFields(acc, "read", relation.collection)
      \/ /\ "*" \notin getAllowedFields(acc, "read", relation.collection)
         /\ relation.field \notin getAllowedFields(acc, "read", relation.collection))

OneFieldUnchecked(acc, relation) == TRUE

OneFieldAllowed(acc, relation) ==
    ~(/\ relation.related_collection # NULL
      /\ relation.meta.one_field # NULL
      /\ \/ ~HasAllowedFields(acc, "read", relation.related_collection)
         \/ /\ "*" \notin getAllowedFields(acc, "read", relation.related_collection)
            /\ relation.meta.one_field
                   \notin getAllowedFields(acc, "read", relation.related_collection))

fieldsAllowed(acc, relation) ==
    OwnFieldAllowed(acc, relation) /\ OneFieldAllowed(acc, relation)

filterForbiddenSkipping(acc, relations) ==
    IF acc.kind = "null" \/ acc.kind = "admin" THEN relations
    ELSE SelectSeq(IF relations = <<>> THEN <<>> ELSE Tail(relations),
                   LAMBDA relation : collectionsAllowed(acc, relation)
                                     /\ fieldsAllowed(acc, relation))

filterForbidden(acc, relations) ==
    IF acc.kind = "null" \/ acc.kind = "admin" THEN relations
    ELSE SelectSeq(relations,
                   LAMBDA relation : collectionsAllowed(acc, relation)
                                     /\ fieldsAllowed(acc, relation))

(***************************************************************************)
(* readAll and readOne: a result, or the error raised.                     *)
(***************************************************************************)
Result(e, rs) == [err |-> e, rows |-> rs]

readAll(acc, collection, fk, m) ==
    IF IsRestricted(acc) /\ ~hasReadAccess(acc) THEN Result("Forbidden", <<>>)
    ELSE LET metaSeq == SelectSeq(readByQuery(m, collection, NULL) \o SeqOf(systemRelationRows),
                                  LAMBDA row : collection = NULL
                                               \/ row.many_collection = collection)
             schemaRows == foreignKeys(fk, collection)
         IN Result("ok", filterForbidden(acc, stitchRelations(metaSeq, schemaRows)))

FieldReadable(acc, collection, field) ==
    LET hit == {i \in 1..Len(acc.permissions) :
                   /\ acc.permissions[i].action = "read"
                   /\ acc.permissions[i].collection = collection}
        permissions == acc.permissions[CHOOSE i \in hit : \A j \in hit : i <= j]
    IN /\ hit # {}
       /\ permissions.fields # {}
       /\ "*" \in permissions.fields \/ field \in permissions.fields

readOneNotFound(acc, collection, field, fk, m) ==
    IF IsRestricted(acc) /\ ~hasReadAccess(acc) THEN Result("Forbidden", <<>>)
    ELSE IF IsRestricted(acc) /\ ~FieldReadable(acc, collection, field)
    THEN Result("Forbidden", <<>>)
    ELSE LET rows == readByQuery(m, collection, field)
             keys == SelectSeq(foreignKeys(fk, collection), LAMBDA x : x.column = field)
             stitched == stitchRelations(IF rows = <<>> THEN <<>> ELSE <<rows[1]>>,
                                         IF keys = <<>> THEN <<>> ELSE <<keys[1]>>)
             results == filterForbidden(acc, stitched)
         IN IF stitched = <<>> THEN Result("NotFound", <<>>)
            ELSE IF results = <<>> THEN Result("Forbidden", <<>>)
            ELSE Result("ok", <<results[1]>>)

readOne(acc, collection, field, fk, m) ==
    IF IsRestricted(acc) /\ ~hasReadAccess(acc) THEN Result("Forbidden", <<>>)
    ELSE IF IsRestricted(acc) /\ ~FieldReadable(acc, collection, field)
    THEN Result("Forbidden", <<>>)
    ELSE LET rows == readByQuery(m, collection, field)
             keys == SelectSeq(foreignKeys(fk, collection), LAMBDA x : x.column = field)
             stitched == stitchRelations(IF rows = <<>> THEN <<>> ELSE <<rows[1]>>,
                                         IF keys = <<>> THEN <<>> ELSE <<keys[1]>>)
             results == filterForbidden(acc, stitched)
         IN IF results = <<>> THEN Result("Forbidden", <<>>)
            ELSE Result("ok", <<results[1]>>)

(***************************************************************************)
(* Payloads: a Partial<Relation> and its meta.                             *)
(***************************************************************************)
MetaPayload(mc, mf, oc, of, oac) ==
    [given |-> TRUE, many_collection |-> mc, many_field |-> mf, one_collection |-> oc,
     one_field |-> of, one_allowed_collections |-> oac]

NoMetaPayload == [MetaPayload(NULL, NULL, NULL, NULL, {}) EXCEPT !.given = FALSE]

Payload(c, f, rc, od, m) ==
    [collection |-> c, field |-> f, related_collection |-> rc, on_delete |-> od, meta |-> m]

NoPayload == Payload(NULL, NULL, NULL, NULL, NoMetaPayload)

MetaRowOf(meta, mc, mf, oc) ==
    [id |-> 0, many_collection |-> mc, many_field |-> mf, one_collection |-> oc,
     one_field |-> meta.one_field,
     one_allowed_collections |-> meta.one_allowed_collections]

(***************************************************************************)
(* Validation of createOne, updateOne and deleteOne.                       *)
(***************************************************************************)
Verdict(e, m) == [err |-> e, msg |-> m]
Pass == Verdict("none", "")

IsAdminOrNull(acc) == ~(acc.kind # "null" /\ acc.kind # "admin")

CreateReachesLookup(acc, relation) ==
    /\ IsAdminOrNull(acc)
    /\ relation.collection # NULL
    /\ relation.field # NULL
    /\ relation.collection \in Collections
    /\ relation.field \in Fields(relation.collection)
    /\ Primary(relation.collection) # relation.field
    /\ ~(relation.related_collection # NULL /\ relation.related_collection \notin Collections)

IsPrimaryKeyOfRelated(relation) == Primary(relation.collection) = relation.related_collection
IsPrimaryKey(relation) == Primary(relation.collection) = relation.field

CreateCheckRelatedFirst(acc, relation, ch, fk, m) ==
    IF ~IsAdminOrNull(acc) THEN Verdict("Forbidden", "")
    ELSE IF relation.collection = NULL THEN Verdict("InvalidPayload", "collection required")
    ELSE IF relation.field = NULL THEN Verdict("InvalidPayload", "field required")
    ELSE IF relation.collection \notin Collections
    THEN Verdict("InvalidPayload", "collection does not exist")
    ELSE IF relation.field \notin Fields(relation.collection)
    THEN Verdict("InvalidPayload", "field does not exist")
    ELSE IF relation.related_collection # NULL /\ relation.related_collection \notin Collections
    THEN Verdict("InvalidPayload", "related collection does not exist")
    ELSE IF IsPrimaryKey(relation) THEN Verdict("InvalidPayload", "primary key")
    ELSE IF getRelationsForField(relation.collection, relation.field, ch, fk, m) # NoRel
    THEN Verdict("InvalidPayload", "already has a relationship")
    ELSE Pass

CreateCheck(acc, relation, ch, fk, m) ==
    IF ~IsAdminOrNull(acc) THEN Verdict("Forbidden", "")
    ELSE IF relation.collection = NULL THEN Verdict("InvalidPayload", "collection required")
    ELSE IF relation.field = NULL THEN Verdict("InvalidPayload", "field required")
    ELSE IF relation.collection \notin Collections
    THEN Verdict("InvalidPayload", "collection does not exist")
    ELSE IF relation.field \notin Fields(relation.collection)
    THEN Verdict("InvalidPayload", "field does not exist")
    ELSE IF IsPrimaryKey(relation) THEN Verdict("InvalidPayload", "primary key")
    ELSE IF relation.related_collection # NULL /\ relation.related_collection \notin Collections
    THEN Verdict("InvalidPayload", "related collection does not exist")
    ELSE IF getRelationsForField(relation.collection, relation.field, ch, fk, m) # NoRel
    THEN Verdict("InvalidPayload", "already has a relationship")
    ELSE Pass

FieldReachesLookup(acc, collection, field) ==
    /\ IsAdminOrNull(acc)
    /\ collection \in Collections
    /\ field \in Fields(collection)

FieldCheck(acc, collection, field, ch, fk, m) ==
    IF ~IsAdminOrNull(acc) THEN Verdict("Forbidden", "")
    ELSE IF collection \notin Collections
    THEN Verdict("InvalidPayload", "collection does not exist")
    ELSE IF field \notin Fields(collection)
    THEN Verdict("InvalidPayload", "field does not exist")
    ELSE IF getRelationsForField(collection, field, ch, fk, m) = NoRel
    THEN Verdict("InvalidPayload", "no relationship")
    ELSE Pass

(***************************************************************************)
(* The statements each transaction issues.                                 *)
(***************************************************************************)
SchemaConnPlain == "knex"
SchemaConn == "trx"
MetaConn == "trx"

Throw == [k |-> "throw", conn |-> "trx"]

alterTypeAnyKey(table, relation, types) ==
    IF <<relation.collection, relation.field>> \notin Pairs THEN <<Throw>>
    ELSE IF relation.related_collection \notin Collections THEN <<Throw>>
    ELSE LET m2oFieldDBType == types[<<relation.collection, relation.field>>]
             relatedFieldDBType ==
                 types[<<relation.related_collection, Primary(relation.related_collection)>>]
         IN IF /\ m2oFieldDBType # relatedFieldDBType
               /\ m2oFieldDBType = "int"
            THEN <<[k |-> "alterType", conn |-> SchemaConn, c |-> table,
                    f |-> relation.field, to |-> "int unsigned"]>>
            ELSE <<>>

alterType(table, relation, types) ==
    IF <<relation.collection, relation.field>> \notin Pairs THEN <<Throw>>
    ELSE IF relation.related_collection \notin Collections THEN <<Throw>>
    ELSE LET m2oFieldDBType == types[<<relation.collection, relation.field>>]
             relatedFieldDBType ==
                 types[<<relation.related_collection, Primary(relation.related_collection)>>]
         IN IF /\ m2oFieldDBType # relatedFieldDBType
               /\ m2oFieldDBType = "int"
               /\ relatedFieldDBType = "int unsigned"
            THEN <<[k |-> "alterType", conn |-> SchemaConn, c |-> table,
                    f |-> relation.field, to |-> "int unsigned"]>>
            ELSE <<>>

ForeignUnnamed(c, f, name, ref, od) ==
    [k |-> "foreign", conn |-> SchemaConn, c |-> c, f |-> f, name |-> NoName, ref |-> ref,
     on_delete |-> od]

Foreign(c, f, name, ref, od) ==
    [k |-> "foreign", conn |-> SchemaConn, c |-> c, f |-> f, name |-> name, ref |-> ref,
     on_delete |-> od]

DropForeign(c, f, name) ==
    [k |-> "dropForeign", conn |-> SchemaConn, c |-> c, f |-> f, name |-> name]

CreateStmts(relation, types) ==
    (IF relation.related_collection # NULL
     THEN alterType(relation.collection, relation, types)
          \o <<Foreign(relation.collection, relation.field,
                       getDefaultIndexName("foreign", relation.collection, relation.field),
                       relation.related_collection, relation.on_delete)>>
     ELSE <<>>)
    \o <<[k |-> "insertMeta", conn |-> MetaConn,
          row |-> MetaRowOf(relation.meta, relation.collection, relation.field,
                            relation.related_collection)]>>

UpdateMetaStmts(relation, existingRelation) ==
    IF relation.meta.given
    THEN IF HasMeta(existingRelation.meta)
         THEN <<[k |-> "updateMeta", conn |-> MetaConn, id |-> existingRelation.meta.id,
                 row |-> relation.meta]>>
         ELSE <<[k |-> "insertMeta", conn |-> MetaConn,
                 row |-> MetaRowOf(relation.meta, relation.collection, relation.field,
                                   existingRelation.related_collection)]>>
    ELSE <<>>

UpdateStmts(collection, field, relation, existingRelation, types) ==
    (IF existingRelation.related_collection # NULL
     THEN LET default == getDefaultIndexName("foreign", collection, field)
              constraintName ==
                  IF existingRelation.schema.present
                     /\ existingRelation.schema.constraint_name # NoName
                  THEN existingRelation.schema.constraint_name
                  ELSE default
          IN (IF existingRelation.schema.present
              THEN <<DropForeign(collection, field, constraintName)>> ELSE <<>>)
             \o alterType(collection, relation, types)
             \o (IF existingRelation.related_collection \in Collections
                 THEN <<Foreign(collection, field, constraintName,
                                existingRelation.related_collection, relation.on_delete)>>
                 ELSE <<Throw>>)
     ELSE <<>>)
    \o UpdateMetaStmts(relation, existingRelation)

DeleteStmtsUnchecked(collection, field, existingRelation, existingConstraints) ==
    (IF existingRelation.schema.constraint_name # NoName
     THEN <<DropForeign(existingRelation.collection, existingRelation.field,
                        existingRelation.schema.constraint_name)>>
     ELSE <<>>)
    \o (IF HasMeta(existingRelation.meta)
        THEN <<[k |-> "deleteMeta", conn |-> MetaConn, c |-> collection, f |-> field]>>
        ELSE <<>>)

DeleteStmts(collection, field, existingRelation, existingConstraints) ==
    LET constraintNames == {key.name : key \in existingConstraints}
    IN (IF /\ existingRelation.schema.constraint_name # NoName
           /\ existingRelation.schema.constraint_name \in constraintNames
        THEN <<DropForeign(existingRelation.collection, existingRelation.field,
                           existingRelation.schema.constraint_name)>>
        ELSE <<>>)
       \o (IF HasMeta(existingRelation.meta)
           THEN <<[k |-> "deleteMeta", conn |-> MetaConn, c |-> collection, f |-> field]>>
           ELSE <<>>)

(***************************************************************************)
(* Inputs the operations are called with.                                  *)
(***************************************************************************)
UserArticles == UserAcc(<<Perm("read", "directus_relations", {"*"}),
                          Perm("read", "articles", {"*"}),
                          Perm("read", "directus_files", {"*"}),
                          Perm("update", "authors", {"*"})>>)
UserBoth == UserAcc(<<Perm("read", "directus_relations", {"*"}),
                      Perm("read", "articles", {"author_id"}),
                      Perm("read", "authors", {"*"})>>)
UserNoBase == UserAcc(<<Perm("read", "articles", {"*"}), Perm("read", "authors", {"*"})>>)

ReadAccs == {AdminAcc, UserArticles, UserBoth, UserNoBase}

OneField == MetaPayload(NULL, NULL, NULL, "posts", {})
Foreigner == MetaPayload("authors", "id", "articles", NULL, {})

Rejected ==
    {Payload(t[1], t[2], t[3], NULL, NoMetaPayload) :
        t \in {<<NULL, NULL, "ghost">>, <<"articles", NULL, "ghost">>,
               <<"ghost", "nope", "ghost">>, <<"articles", "nope", "ghost">>,
               <<"articles", "id", "ghost">>, <<"articles", "id", "authors">>,
               <<"articles", "id", NULL>>, <<"authors", "id", "articles">>,
               <<"articles", "author_id", "ghost">>}}

CreatePayloads ==
    Rejected
    \cup {Payload("articles", "author_id", rc, od, m) :
             rc \in {NULL, "authors"}, od \in {NULL, "CASCADE"},
             m \in {NoMetaPayload, OneField}}

UpdatePayloads ==
    {Payload(NULL, NULL, NULL, NULL, m) : m \in {NoMetaPayload, OneField}}
    \cup {Payload("articles", "author_id", NULL, NULL, OneField),
          Payload("authors", "id", "authors", NULL, OneField)}
    \cup {Payload("articles", "author_id", "authors", od, m) :
             od \in {NULL, "CASCADE"}, m \in {NoMetaPayload, OneField, Foreigner}}

TargetPairs == {<<"articles", "author_id">>, <<"articles", "id">>, <<"articles", "nope">>,
                <<"ghost", "id">>}

CreateCalls ==
    {<<AdminAcc, relation>> : relation \in CreatePayloads}
    \cup {<<acc, Payload("articles", "author_id", "authors", NULL, NoMetaPayload)>> :
             acc \in {NullAcc, UserArticles}}

UpdateCalls ==
    {<<AdminAcc, <<"articles", "author_id">>, relation>> : relation \in UpdatePayloads}
    \cup {<<AdminAcc, cf, Payload("articles", "author_id", "authors", "CASCADE", OneField)>> :
             cf \in TargetPairs}
    \cup {<<UserArticles, <<"articles", "author_id">>,
            Payload("articles", "author_id", "authors", "CASCADE", OneField)>>}

DeleteCalls ==
    {<<AdminAcc, cf>> : cf \in TargetPairs}
    \cup {<<UserArticles, <<"articles", "author_id">>>>}

Op(name, acc, c, f, relation) ==
    [name |-> name, acc |-> acc, collection |-> c, field |-> f, relation |-> relation]

NoOp == Op("none", NullAcc, NULL, NULL, NoPayload)

Pending == Verdict("pending", "")

Idle(p) == pc[p] \in {"idle", "done"}

Procs == {1}

(***************************************************************************)
(* createOne, updateOne, deleteOne: validation up to the pre-mutation hook.*)
(***************************************************************************)
StartHookFirst(p, o, v, ex, ch) ==
    /\ op' = [op EXCEPT ![p] = o]
    /\ existing' = [existing EXCEPT ![p] = ex]
    /\ runPost' = [runPost EXCEPT ![p] = FALSE]
    /\ trace' = [trace EXCEPT ![p] = <<<<"preColumnChange">>>>]
    /\ ret' = [ret EXCEPT ![p] = <<>>]
    /\ cache' = ch
    /\ IF v.err = "none"
       THEN pc' = [pc EXCEPT ![p] = "tx"] /\ outcome' = [outcome EXCEPT ![p] = Pending]
       ELSE pc' = [pc EXCEPT ![p] = "done"] /\ outcome' = [outcome EXCEPT ![p] = v]
    /\ UNCHANGED <<dbVars, filterVars>>

Start(p, o, v, ex, ch) ==
    /\ op' = [op EXCEPT ![p] = o]
    /\ existing' = [existing EXCEPT ![p] = ex]
    /\ runPost' = [runPost EXCEPT ![p] = FALSE]
    /\ trace' = [trace EXCEPT ![p] = <<>>]
    /\ ret' = [ret EXCEPT ![p] = <<>>]
    /\ cache' = ch
    /\ IF v.err = "none"
       THEN pc' = [pc EXCEPT ![p] = "hook"] /\ outcome' = [outcome EXCEPT ![p] = Pending]
       ELSE pc' = [pc EXCEPT ![p] = "done"] /\ outcome' = [outcome EXCEPT ![p] = v]
    /\ UNCHANGED <<dbVars, filterVars>>

CreateOneWith(p, calls) ==
    /\ Idle(p)
    /\ \E call \in calls :
          LET acc == call[1]
              relation == call[2]
          IN Start(p, Op("createOne", acc, relation.collection, relation.field, relation),
                   CreateCheck(acc, relation, cache, fks, metaRows), NoRel,
                   IF CreateReachesLookup(acc, relation)
                   THEN FillCollection(relation.collection, cache, fks, metaRows)
                   ELSE cache)

CreateOneValidate(p) == CreateOneWith(p, CreateCalls)

UpdateOneValidate(p) ==
    /\ Idle(p)
    /\ \E call \in UpdateCalls :
          LET acc == call[1]
              cf == call[2]
          IN Start(p, Op("updateOne", acc, cf[1], cf[2], call[3]),
                   FieldCheck(acc, cf[1], cf[2], cache, fks, metaRows),
                   IF FieldReachesLookup(acc, cf[1], cf[2])
                   THEN getRelationsForField(cf[1], cf[2], cache, fks, metaRows) ELSE NoRel,
                   IF FieldReachesLookup(acc, cf[1], cf[2])
                   THEN FillField(cf[1], cf[2], cache, fks, metaRows) ELSE cache)

DeleteOneValidate(p) ==
    /\ Idle(p)
    /\ \E call \in DeleteCalls :
          LET acc == call[1]
              cf == call[2]
          IN Start(p, Op("deleteOne", acc, cf[1], cf[2], NoPayload),
                   FieldCheck(acc, cf[1], cf[2], cache, fks, metaRows),
                   IF FieldReachesLookup(acc, cf[1], cf[2])
                   THEN getRelationsForField(cf[1], cf[2], cache, fks, metaRows) ELSE NoRel,
                   IF FieldReachesLookup(acc, cf[1], cf[2])
                   THEN FillField(cf[1], cf[2], cache, fks, metaRows) ELSE cache)

PreColumnChange(p) ==
    /\ pc[p] = "hook"
    /\ \E needed \in BOOLEAN : runPost' = [runPost EXCEPT ![p] = needed]
    /\ trace' = [trace EXCEPT ![p] = Append(@, <<"preColumnChange">>)]
    /\ pc' = [pc EXCEPT ![p] = "tx"]
    /\ UNCHANGED <<dbVars, cache, op, existing, outcome, ret, filterVars>>

(***************************************************************************)
(* The transaction of each operation.                                      *)
(***************************************************************************)
TxEvents(stmts, r) ==
    IF r.err = "none"
    THEN <<<<"begin">>>> \o [i \in 1..Len(stmts) |-> <<"stmt", stmts[i].k>>]
         \o <<<<"commit">>>>
    ELSE <<<<"begin">>, <<"rollback">>>>

RunTransaction(p, stmts) ==
    \E fault \in 0..(Len(stmts) + 1) :
        LET r == Transaction(stmts, DB(fks, metaRows, dbType), fault)
        IN /\ Cardinality(r.db.meta) <= MaxRows
           /\ fks' = r.db.fks
           /\ metaRows' = r.db.meta
           /\ dbType' = r.db.types
           /\ outcome' = [outcome EXCEPT ![p] = Verdict(r.err, "")]
           /\ trace' = [trace EXCEPT ![p] = @ \o TxEvents(stmts, r)]
           /\ pc' = [pc EXCEPT ![p] = "finally"]
           /\ UNCHANGED <<cache, op, existing, runPost, ret, filterVars>>

CreateOneTx(p) ==
    /\ pc[p] = "tx" /\ op[p].name = "createOne"
    /\ RunTransaction(p, CreateStmts(op[p].relation, dbType))

UpdateOneTx(p) ==
    /\ pc[p] = "tx" /\ op[p].name = "updateOne"
    /\ RunTransaction(p, UpdateStmts(op[p].collection, op[p].field, op[p].relation,
                                     existing[p], dbType))

DeleteOneTx(p) ==
    /\ pc[p] = "tx" /\ op[p].name = "deleteOne"
    /\ RunTransaction(p, DeleteStmts(op[p].collection, op[p].field, existing[p], fks))

(***************************************************************************)
(* The finally block: post-mutation hook, then cache invalidation.         *)
(***************************************************************************)
RunsCleanupOnSuccess(err) == err = "none"
RunsCleanup(err) == TRUE

CacheEvent(o) ==
    IF o.name = "createOne" THEN <<"setHashFull", o.relation.collection>>
    ELSE <<"clearRelationsForField", o.collection, o.field>>

InvalidateRelated(o, ch) ==
    IF o.name = "createOne" THEN setHashFull(o.relation.related_collection, ch)
    ELSE clearRelationsForField(o.collection, o.field, ch)

Invalidate(o, ch) ==
    IF o.name = "createOne" THEN setHashFull(o.relation.collection, ch)
    ELSE clearRelationsForField(o.collection, o.field, ch)

FinallyPostOnCommit(p) ==
    /\ pc[p] = "finally"
    /\ trace' = [trace EXCEPT ![p] =
                    @ \o (IF runPost[p] /\ outcome[p].err = "none"
                          THEN <<<<"postColumnChange">>>> ELSE <<>>)
                      \o (IF RunsCleanup(outcome[p].err) THEN <<CacheEvent(op[p])>> ELSE <<>>)]
    /\ cache' = IF RunsCleanup(outcome[p].err) THEN Invalidate(op[p], cache) ELSE cache
    /\ outcome' = [outcome EXCEPT ![p] = IF @.err = "none" THEN Verdict("ok", "") ELSE @]
    /\ pc' = [pc EXCEPT ![p] = "done"]
    /\ UNCHANGED <<dbVars, op, existing, runPost, ret, filterVars>>

Finally(p) ==
    /\ pc[p] = "finally"
    /\ trace' = [trace EXCEPT ![p] =
                    @ \o (IF runPost[p] THEN <<<<"postColumnChange">>>> ELSE <<>>)
                      \o (IF RunsCleanup(outcome[p].err) THEN <<CacheEvent(op[p])>> ELSE <<>>)]
    /\ cache' = IF RunsCleanup(outcome[p].err) THEN Invalidate(op[p], cache) ELSE cache
    /\ outcome' = [outcome EXCEPT ![p] = IF @.err = "none" THEN Verdict("ok", "") ELSE @]
    /\ pc' = [pc EXCEPT ![p] = "done"]
    /\ UNCHANGED <<dbVars, op, existing, runPost, ret, filterVars>>

(***************************************************************************)
(* Reads.                                                                  *)
(***************************************************************************)
Read(p, o, r) ==
    /\ op' = [op EXCEPT ![p] = o]
    /\ existing' = [existing EXCEPT ![p] = NoRel]
    /\ runPost' = [runPost EXCEPT ![p] = FALSE]
    /\ trace' = [trace EXCEPT ![p] = <<>>]
    /\ ret' = [ret EXCEPT ![p] = r.rows]
    /\ outcome' = [outcome EXCEPT ![p] = Verdict(r.err, "")]
    /\ pc' = [pc EXCEPT ![p] = "done"]
    /\ UNCHANGED <<dbVars, cache, filterVars>>

ReadAll(p) ==
    /\ Idle(p)
    /\ \E acc \in ReadAccs, c \in {NULL, "articles"} :
          Read(p, Op("readAll", acc, c, NULL, NoPayload), readAll(acc, c, fks, metaRows))

ReadOne(p) ==
    /\ Idle(p)
    /\ \E acc \in ReadAccs, cf \in {<<"articles", "author_id">>} :
          Read(p, Op("readOne", acc, cf[1], cf[2], NoPayload),
               readOne(acc, cf[1], cf[2], fks, metaRows))

(***************************************************************************)
(* A constraint removed from the database behind the service's back.       *)
(***************************************************************************)
OutOfBandDrop ==
    /\ \E x \in fks : fks' = fks \ {x}
    /\ UNCHANGED <<metaRows, dbType, cache, procVars, filterVars>>

(***************************************************************************)
(* The service, one call at a time.                                        *)
(***************************************************************************)
LegacyKey == [collection |-> "articles", column |-> "author_id", related |-> "authors",
              name |-> CustomName, on_delete |-> "SET NULL"]

InitProcs ==
    /\ pc = [p \in {1, 2} |-> "idle"]
    /\ op = [p \in {1, 2} |-> NoOp]
    /\ existing = [p \in {1, 2} |-> NoRel]
    /\ runPost = [p \in {1, 2} |-> FALSE]
    /\ outcome = [p \in {1, 2} |-> Pending]
    /\ trace = [p \in {1, 2} |-> <<>>]
    /\ ret = [p \in {1, 2} |-> <<>>]

InitFilter == fin = <<>> /\ facc = NullAcc /\ fout = <<>>

Init ==
    /\ \E t \in {"int", "int unsigned"}, legacy \in BOOLEAN :
          /\ legacy <=> t = "int unsigned"
          /\ fks = IF legacy THEN {LegacyKey} ELSE {}
          /\ dbType = [p \in Pairs |-> IF p = <<"articles", "author_id">> THEN t
                                       ELSE "int unsigned"]
    /\ metaRows = {}
    /\ cache = [p \in CacheKeys |-> Invalid]
    /\ InitProcs
    /\ InitFilter

Next ==
    \/ \E p \in Procs :
          \/ CreateOneValidate(p)
          \/ UpdateOneValidate(p)
          \/ DeleteOneValidate(p)
          \/ PreColumnChange(p)
          \/ CreateOneTx(p)
          \/ UpdateOneTx(p)
          \/ DeleteOneTx(p)
          \/ Finally(p)
          \/ ReadAll(p)
          \/ ReadOne(p)
    \/ OutOfBandDrop

Spec == Init /\ [][Next]_vars

(***************************************************************************)
(* Two createOne calls in flight at once, for the same (collection, field).*)
(***************************************************************************)
RaceCalls ==
    {<<AdminAcc, Payload("articles", "author_id", rc, NULL, NoMetaPayload)>> :
        rc \in {NULL, "authors"}}

RaceCreateOne(p) == CreateOneWith(p, RaceCalls)

RaceNext ==
    \E p \in {1, 2} :
        \/ RaceCreateOne(p)
        \/ PreColumnChange(p)
        \/ CreateOneTx(p)
        \/ Finally(p)

SpecRace == Init /\ [][RaceNext]_vars

(***************************************************************************)
(* createOne over every pairing of storage types of the owning field and   *)
(* the related primary key.                                                *)
(***************************************************************************)
DbTypes == {"int", "int unsigned", "bigint", "varchar"}

TypeCalls ==
    {<<AdminAcc, Payload("articles", "author_id", rc, NULL, NoMetaPayload)>> :
        rc \in {NULL, "authors"}}

TypesInit ==
    /\ \E own \in DbTypes, key \in DbTypes :
          dbType = [p \in Pairs |-> IF p = <<"articles", "author_id">> THEN own
                                    ELSE IF p = <<"authors", "id">> THEN key
                                    ELSE "int unsigned"]
    /\ fks = {}
    /\ metaRows = {}
    /\ cache = [p \in CacheKeys |-> Invalid]
    /\ InitProcs
    /\ InitFilter

TypesCreateOne(p) == CreateOneWith(p, TypeCalls)

TypesNext ==
    \E p \in Procs :
        \/ TypesCreateOne(p)
        \/ PreColumnChange(p)
        \/ CreateOneTx(p)
        \/ Finally(p)

SpecTypes == TypesInit /\ [][TypesNext]_vars

(***************************************************************************)
(* filterForbidden on its own: every list of at most MaxList descriptors,  *)
(* under every accountability of FilterAccs.                               *)
(***************************************************************************)
Rel(c, f, rc, of, oac) ==
    [collection |-> c, field |-> f, related_collection |-> rc,
     schema |-> IF rc = NULL THEN NoSchema
                ELSE [present |-> TRUE,
                      constraint_name |-> getDefaultIndexName("foreign", c, f),
                      on_delete |-> NULL],
     meta |-> [id |-> 1, many_collection |-> c, many_field |-> f, one_collection |-> rc,
               one_field |-> of, one_allowed_collections |-> oac]]

FilterRelations ==
    {Rel("articles", "author_id", "authors", NULL, {}),
     Rel("articles", "author_id", "authors", "posts", {}),
     Rel("articles", "item", NULL, NULL, {"authors", "pages"}),
     Rel("articles", "item", NULL, "posts", {}),
     Rel("articles", "item", NULL, NULL, {"authors"}),
     Rel("pages", "owner", "authors", "pages", {}),
     Rel("authors", "editor", "articles", "author_id", {})}

FilterAccs ==
    {NullAcc, AdminAcc,
     UserAcc(<<Perm("read", "articles", {"*"})>>),
     UserAcc(<<Perm("read", "articles", {"author_id"}), Perm("read", "authors", {"*"})>>),
     UserAcc(<<Perm("read", "articles", {"*"}), Perm("read", "authors", {"posts"}),
               Perm("update", "pages", {"*"})>>),
     UserAcc(<<Perm("read", "articles", {"item"}), Perm("read", "authors", {}),
               Perm("read", "authors", {"editor", "pages"}), Perm("read", "pages", {"*"})>>)}

RECURSIVE ListsUpTo(_, _)
ListsUpTo(S, n) ==
    IF n = 0 THEN {<<>>}
    ELSE ListsUpTo(S, n - 1)
         \cup {Append(l, x) : l \in {k \in ListsUpTo(S, n - 1) : Len(k) = n - 1}, x \in S}

FilterInit ==
    /\ fks = {} /\ metaRows = {} /\ dbType = [p \in Pairs |-> "int unsigned"]
    /\ cache = [p \in CacheKeys |-> Invalid]
    /\ InitProcs
    /\ fin \in ListsUpTo(FilterRelations, MaxList)
    /\ facc \in FilterAccs
    /\ fout = <<>>

FilterForbidden ==
    /\ op[1].name = "none"
    /\ fout' = filterForbidden(facc, fin)
    /\ op' = [op EXCEPT ![1] = Op("filterForbidden", facc, NULL, NULL, NoPayload)]
    /\ UNCHANGED <<dbVars, cache, pc, existing, runPost, outcome, trace, ret, fin, facc>>

FilterAgain ==
    /\ op[1].name = "filterForbidden"
    /\ fout' = filterForbidden(facc, fout)
    /\ op' = [op EXCEPT ![1] = Op("filterAgain", facc, NULL, NULL, NoPayload)]
    /\ UNCHANGED <<dbVars, cache, pc, existing, runPost, outcome, trace, ret, fin, facc>>

FilterNext == FilterForbidden \/ FilterAgain

SpecFilter == FilterInit /\ [][FilterNext]_vars

(***************************************************************************)
(* Properties.                                                             *)
(***************************************************************************)
RowsFor(m, c, f) == {r \in m : r.many_collection = c /\ r.many_field = f}
KeysFor(fk, c, f) == {x \in fk : x.collection = c /\ x.column = f}
Settles(p) == pc[p] = "tx" /\ pc'[p] = "finally"
Has(events, e) == \E i \in 1..Len(events) : events[i] = e
Position(events, e) == CHOOSE i \in 1..Len(events) : events[i] = e

(* C1: the foreign-key change and the metadata change of createOne,        *)
(* updateOne and deleteOne are atomic.  A transaction that fails at any    *)
(* step leaves constraints, rows and column types as they were; one that   *)
(* commits leaves both its changes durable; and outside the settling of a  *)
(* transaction the service changes neither store.                          *)
C1_Atomic ==
    [][/\ \A p \in {1, 2} :
             Settles(p) =>
                LET o == op[p]
                    c == o.collection
                    f == o.field
                IN /\ outcome'[p].err # "none" => UNCHANGED dbVars
                   /\ (outcome'[p].err = "none" /\ o.name = "createOne"
                       /\ o.relation.related_collection # NULL)
                      => /\ KeysFor(fks', c, f) # {} /\ KeysFor(fks, c, f) = {}
                         /\ Cardinality(RowsFor(metaRows', c, f))
                               = Cardinality(RowsFor(metaRows, c, f)) + 1
                   /\ (outcome'[p].err = "none" /\ o.name = "deleteOne")
                      => /\ RowsFor(metaRows', c, f) = {}
                         /\ \A x \in fks' : x.name # existing[p].schema.constraint_name
                                            \/ ~existing[p].schema.present
                   /\ (outcome'[p].err = "none" /\ o.name = "updateOne"
                       /\ existing[p].related_collection # NULL /\ o.relation.meta.given
                       /\ HasMeta(existing[p].meta))
                      => /\ KeysFor(fks', c, f) # {}
                         /\ \A x \in KeysFor(fks', c, f) :
                               x.on_delete = o.relation.on_delete
                         /\ \A r \in metaRows' :
                               (r.id = existing[p].meta.id
                                /\ o.relation.meta.one_field # NULL)
                               => r.one_field = o.relation.meta.one_field
       /\ (\A p \in {1, 2} : ~Settles(p))
          => metaRows' = metaRows /\ dbType' = dbType /\ fks' \subseteq fks]_vars

(* A transaction that had dropped the constraint and then failed: the      *)
(* constraint and the rows are still there.                                *)
C1_Witness ==
    /\ pc[1] = "finally" /\ op[1].name = "updateOne"
    /\ outcome[1].err \in {"TypeError", "Fault"}
    /\ existing[1].schema.present /\ op[1].relation.meta.given
    /\ KeysFor(fks, "articles", "author_id") # {}
    /\ RowsFor(metaRows, "articles", "author_id") # {}

Writes == {"createOne", "updateOne", "deleteOne"}
Settle(events) == IF Has(events, <<"commit">>) THEN <<"commit">> ELSE <<"rollback">>
NamesOf(fk) == {x.name : x \in fk}

C3_OneWinner ==
    /\ ~(\A p \in {1, 2} : op[p].name = "createOne" /\ Has(trace[p], <<"commit">>))
    /\ Cardinality(RowsFor(metaRows, "articles", "author_id")) <= 1
    /\ Cardinality(KeysFor(fks, "articles", "author_id")) <= 1

(* C4: Forbidden and InvalidPayload are raised by createOne, updateOne and *)
(* deleteOne before the pre-mutation hook and before any transaction: no   *)
(* hook was called, no cache entry invalidated, no constraint or row       *)
(* changed.                                                                *)
C4_RejectedEarly ==
    [][\A p \in {1, 2} :
          (/\ op'[p].name \in Writes
           /\ outcome'[p].err \in {"Forbidden", "InvalidPayload"}
           /\ <<pc[p], op[p], outcome[p], trace[p]>> # <<pc'[p], op'[p], outcome'[p], trace'[p]>>)
          => /\ Idle(p)
             /\ pc'[p] = "done"
             /\ trace'[p] = <<>>
             /\ UNCHANGED dbVars
             /\ \A k \in CacheKeys : cache'[k] = Invalid => cache[k] = Invalid]_vars

(* A createOne rejected for an existing relation, with the stores intact.  *)
C4_Witness ==
    /\ pc[1] = "done" /\ op[1].name = "createOne"
    /\ outcome[1] = Verdict("InvalidPayload", "already has a relationship")
    /\ trace[1] = <<>>
    /\ KeysFor(fks, "articles", "author_id") # {}

(* C5: createOne by an administrator on an existing collection with field  *)
(* equal to the collection's primary key raises InvalidPayload and reaches *)
(* neither the hook nor the transaction, whatever related_collection is.   *)
C5_PrimaryKeyGuard ==
    \A p \in {1, 2} :
        (/\ op[p].name = "createOne" /\ op[p].acc = AdminAcc
         /\ op[p].relation.collection \in Collections
         /\ op[p].relation.field = Primary(op[p].relation.collection))
        => /\ pc[p] = "done"
           /\ outcome[p].err = "InvalidPayload"
           /\ trace[p] = <<>>

(* The guard hit with an existing related collection, while a metadata     *)
(* row sits on a primary-key pair.                                         *)
C5_Witness ==
    /\ op[1].name = "createOne" /\ op[1].relation.field = "id"
    /\ op[1].relation.collection = "authors"
    /\ op[1].relation.related_collection = "articles"
    /\ outcome[1] = Verdict("InvalidPayload", "primary key")
    /\ RowsFor(metaRows, "authors", "id") # {}

(* C6: a createOne by an administrator that follows a committed createOne  *)
(* of the same (collection, field) raises InvalidPayload and leaves the    *)
(* constraints and the rows as they were, with or without a related        *)
(* collection.                                                             *)
C6_DuplicateGuard ==
    [][\A p \in {1, 2} :
          (/\ pc[p] = "done" /\ op[p].name = "createOne" /\ outcome[p].err = "ok"
           /\ trace[p] # <<>> /\ trace'[p] = <<>>
           /\ op'[p].name = "createOne" /\ op'[p].acc = AdminAcc
           /\ op'[p].relation.collection = op[p].relation.collection
           /\ op'[p].relation.field = op[p].relation.field)
          => /\ pc'[p] = "done"
             /\ outcome'[p].err = "InvalidPayload"
             /\ op'[p].relation.related_collection \in Collections \cup {NULL}
                => outcome'[p].msg = "already has a relationship"
             /\ UNCHANGED dbVars]_vars

(* The second createOne of an alias relation, rejected: still one row.     *)
C6_Witness ==
    /\ pc[1] = "done" /\ op[1].name = "createOne"
    /\ op[1].relation.related_collection = NULL
    /\ outcome[1] = Verdict("InvalidPayload", "already has a relationship")
    /\ Cardinality(RowsFor(metaRows, "articles", "author_id")) = 1
    /\ fks = {}

(* C7: metadata and physical schema do not diverge: a row and a constraint *)
(* on the same (collection, field) name the same related collection, and   *)
(* no operation writes a metadata row whose owning collection or field is  *)
(* not the (collection, field) it was invoked on.                          *)
C7_NoDivergence ==
    [][\A p \in {1, 2} :
          Settles(p) =>
             /\ \A r \in metaRows' \ metaRows :
                   r.many_collection = op[p].collection /\ r.many_field = op[p].field
             /\ \A r \in metaRows', x \in fks' :
                   Matches(r, x) => r.one_collection = x.related]_vars

(* C8: deleteOne on a relation whose recorded constraint is no longer in   *)
(* the database ends without an error of its own, drops nothing and        *)
(* removes the metadata row; a constraint is dropped only when its name is *)
(* in the live list of constraint names.                                   *)
C8_DeleteRobust ==
    [][\A p \in {1, 2} :
          (Settles(p) /\ op[p].name = "deleteOne")
          => LET name == existing[p].schema.constraint_name
                 c == op[p].collection
                 f == op[p].field
             IN /\ (existing[p].schema.present /\ name \notin NamesOf(fks))
                   => /\ outcome'[p].err \in {"none", "Fault"}
                      /\ fks' = fks
                      /\ outcome'[p].err = "none" => RowsFor(metaRows', c, f) = {}
                      /\ ~Has(trace'[p], <<"stmt", "dropForeign">>)
                /\ fks' # fks
                   => /\ name \in NamesOf(fks)
                      /\ fks \ fks' = {x \in fks : x.collection = existing[p].collection
                                                    /\ x.name = name}]_vars

(* A committed deleteOne of a relation read with a constraint, which       *)
(* issued no drop and removed the row.                                     *)
C8_Witness ==
    /\ pc[1] = "done" /\ op[1].name = "deleteOne" /\ outcome[1].err = "ok"
    /\ existing[1].schema.present /\ HasMeta(existing[1].meta)
    /\ ~Has(trace[1], <<"stmt", "dropForeign">>)
    /\ Has(trace[1], <<"stmt", "deleteMeta">>)
    /\ RowsFor(metaRows, "articles", "author_id") = {}

ReadPerms(acc) ==
    {acc.permissions[i] : i \in {j \in 1..Len(acc.permissions) :
                                    acc.permissions[j].action = "read"}}
MayRead(acc, c) == \E q \in ReadPerms(acc) : q.collection = c
MayReadField(acc, c, f) ==
    \E q \in ReadPerms(acc) : q.collection = c /\ ("*" \in q.fields \/ f \in q.fields)

KeepA(acc, r) == MayRead(acc, r.collection)
KeepB(acc, r) == r.related_collection # NULL => MayRead(acc, r.related_collection)
KeepC(acc, r) == \A c \in r.meta.one_allowed_collections : MayRead(acc, c)
KeepD(acc, r) == MayReadField(acc, r.collection, r.field)
KeepE(acc, r) ==
    r.meta.one_field # NULL => MayReadField(acc, r.related_collection, r.meta.one_field)
KeepEWithRelated(acc, r) ==
    (r.related_collection # NULL /\ r.meta.one_field # NULL)
    => MayReadField(acc, r.related_collection, r.meta.one_field)

Filtered == op[1].name = "filterForbidden"

(* C9 as claimed: under a restricted accountability filterForbidden keeps  *)
(* a relation iff (a)-(e) hold, (e) being: a declared meta.one_field is    *)
(* allowed on the related collection; kept relations are unmodified and in *)
(* input order; null and administrative accountabilities get the input.    *)
C9_Claimed ==
    Filtered =>
       fout = IF IsRestricted(facc)
              THEN SelectSeq(fin, LAMBDA r : KeepA(facc, r) /\ KeepB(facc, r) /\ KeepC(facc, r)
                                             /\ KeepD(facc, r) /\ KeepE(facc, r))
              ELSE fin

(* C9 as amended: the same, with (e) required only of a relation that has  *)
(* a related collection.                                                   *)
C9_FilterIff ==
    Filtered =>
       fout = IF IsRestricted(facc)
              THEN SelectSeq(fin, LAMBDA r : KeepA(facc, r) /\ KeepB(facc, r) /\ KeepC(facc, r)
                                             /\ KeepD(facc, r)
                                             /\ KeepEWithRelated(facc, r))
              ELSE fin

(* A restricted caller for whom the filter kept the second of two          *)
(* relations and dropped the first, which fails (e) alone.                 *)
C9_Witness ==
    /\ Filtered /\ IsRestricted(facc)
    /\ Len(fin) = 2 /\ fout = <<fin[2]>> /\ fin[1] # fin[2]
    /\ KeepA(facc, fin[1]) /\ KeepB(facc, fin[1]) /\ KeepC(facc, fin[1])
    /\ KeepD(facc, fin[1]) /\ ~KeepEWithRelated(facc, fin[1])

(* C10: readAll and readOne called by a non-administrative caller never    *)
(* return a relation whose owning collection or related collection is not  *)
(* among the collections the caller may read, system relations included.   *)
C10_ReadsRespectCollections ==
    \A p \in {1, 2} :
        (op[p].name \in {"readAll", "readOne"} /\ IsRestricted(op[p].acc))
        => \A i \in 1..Len(ret[p]) :
              /\ MayRead(op[p].acc, ret[p][i].collection)
              /\ ret[p][i].related_collection # NULL
                 => MayRead(op[p].acc, ret[p][i].related_collection)

(* readAll("articles") by a caller who may read articles but not authors,  *)
(* over a database holding (articles, author_id -> authors): nothing.      *)
C10_Witness ==
    /\ pc[1] = "done" /\ op[1].name = "readAll" /\ op[1].acc = UserArticles
    /\ op[1].collection = "articles" /\ outcome[1].err = "ok"
    /\ \E x \in fks : x.collection = "articles" /\ x.related = "authors"
    /\ RowsFor(metaRows, "articles", "author_id") # {}
    /\ ret[1] = <<>>

ReadOneReturns(p) ==
    /\ op'[p].name = "readOne"
    /\ <<pc[p], op[p], outcome[p], ret[p]>> # <<pc'[p], op'[p], outcome'[p], ret'[p]>>

Exists(c, f) == RowsFor(metaRows, c, f) # {} \/ KeysFor(fks, c, f) # {}

MaySee(acc, r) ==
    \/ ~IsRestricted(acc)
    \/ /\ MayRead(acc, "directus_relations")
       /\ KeepA(acc, r) /\ KeepB(acc, r) /\ KeepC(acc, r) /\ KeepD(acc, r)
       /\ KeepEWithRelated(acc, r)

(* C11: readOne hides existence.  It ends with one relation or with        *)
(* Forbidden, never with an empty result or another error; it raises       *)
(* Forbidden when nothing is recorded for (collection, field), for every   *)
(* caller, and raises the same Forbidden when the relation exists and the  *)
(* caller may not see it.                                                  *)
C11_ExistenceHidden ==
    [][\A p \in {1, 2} :
          ReadOneReturns(p) =>
             LET acc == op'[p].acc
                 c == op'[p].collection
                 f == op'[p].field
                 hidden == Exists(c, f) /\ ~MaySee(acc, Load(c, f, fks, metaRows))
                 absent == Result("Forbidden", <<>>)
             IN /\ pc'[p] = "done"
                /\ outcome'[p].err \in {"ok", "Forbidden"}
                /\ outcome'[p].err = "ok" <=> Len(ret'[p]) = 1
                /\ ~Exists(c, f) => Result(outcome'[p].err, ret'[p]) = absent
                /\ hidden => Result(outcome'[p].err, ret'[p]) = absent
                /\ (Exists(c, f) /\ ~hidden) => outcome'[p].err = "ok"]_vars

(* A caller who may read articles but not authors asked for the existing   *)
(* relation (articles, author_id -> authors) and got Forbidden.            *)
C11_Witness ==
    /\ pc[1] = "done" /\ op[1].name = "readOne" /\ op[1].acc = UserArticles
    /\ outcome[1].err = "Forbidden" /\ ret[1] = <<>>
    /\ KeysFor(fks, "articles", "author_id") # {}
    /\ RowsFor(metaRows, "articles", "author_id") # {}

Commits(p, name) == Settles(p) /\ op[p].name = name /\ outcome'[p].err = "none"

(* C12: updateOne never changes which collections a relation links.  After *)
(* a committed updateOne the metadata row of the relation has the owning   *)
(* collection, owning field and one_collection it had before, for every    *)
(* payload, and the constraint on (collection, field) references the same  *)
(* related collection.                                                     *)
C12_PairImmutable ==
    [][\A p \in {1, 2} :
          Commits(p, "updateOne") =>
             /\ \A r \in metaRows :
                   \E n \in metaRows' :
                      /\ n.id = r.id
                      /\ n.many_collection = r.many_collection
                      /\ n.many_field = r.many_field
                      /\ n.one_collection = r.one_collection
             /\ {x.related : x \in KeysFor(fks', op[p].collection, op[p].field)}
                   = {x.related : x \in KeysFor(fks, op[p].collection, op[p].field)}]_vars

(* C13: create -> readOne round trip.  Once an administrative createOne of *)
(* (collection, field, related_collection) has committed, readOne of the   *)
(* pair with administrative accountability returns a descriptor of that    *)
(* pair, with the related collection given and with the constraint name    *)
(* createOne derived from (collection, field).                             *)
C13_CreateReadRoundTrip ==
    [][\A p \in {1, 2} :
          (Commits(p, "createOne") /\ op[p].relation.related_collection # NULL)
          => LET c == op[p].relation.collection
                 f == op[p].relation.field
                 r == readOne(AdminAcc, c, f, fks', metaRows')
             IN /\ r.err = "ok"
                /\ Len(r.rows) = 1
                /\ r.rows[1].collection = c
                /\ r.rows[1].field = f
                /\ r.rows[1].related_collection = op[p].relation.related_collection
                /\ r.rows[1].schema.present
                /\ r.rows[1].schema.constraint_name = getDefaultIndexName("foreign", c, f)]_vars

(* An administrator's readOne that returned the relation a createOne made, *)
(* under its default constraint name and with its metadata row.            *)
C13_Witness ==
    /\ pc[1] = "done" /\ op[1].name = "readOne" /\ op[1].acc = AdminAcc
    /\ outcome[1].err = "ok" /\ Len(ret[1]) = 1
    /\ ret[1][1].collection = "articles" /\ ret[1][1].field = "author_id"
    /\ ret[1][1].related_collection = "authors"
    /\ ret[1][1].schema.constraint_name = getDefaultIndexName("foreign", "articles", "author_id")
    /\ HasMeta(ret[1][1].meta)

(* C14: filterForbidden is idempotent.  Given the list it returned, under  *)
(* the same accountability, it returns that list again, element for        *)
(* element and in the same order.                                          *)
C14_FilterIdempotent ==
    [][(op[1].name = "filterForbidden" /\ op'[1].name = "filterAgain") => fout' = fout]_vars

(* A restricted caller's list of two, filtered down to one relation and    *)
(* filtered again.                                                         *)
C14_Witness ==
    /\ op[1].name = "filterAgain" /\ IsRestricted(facc)
    /\ Len(fin) = 2 /\ Len(fout) = 1

Count(events, e) == Cardinality({i \in 1..Len(events) : events[i] = e})
PreHook == <<"preColumnChange">>
PostHook == <<"postColumnChange">>

(* C15: the hook protocol of createOne, updateOne and deleteOne.  The      *)
(* pre-mutation hook is called once, after every validation has passed and *)
(* before the transaction opens; the post-mutation hook is called once,    *)
(* after the transaction has committed or rolled back, exactly when the    *)
(* pre-hook returned true, and before the cache invalidation; a call that  *)
(* never reached the pre-hook calls neither.                               *)
C15_HookProtocol ==
    [][\A p \in {1, 2} :
          /\ (pc[p] # "hook" /\ pc'[p] = "hook")
             => /\ trace'[p] = <<>>
                /\ IF op'[p].name = "createOne"
                   THEN CreateCheck(op'[p].acc, op'[p].relation, cache, fks, metaRows) = Pass
                   ELSE FieldCheck(op'[p].acc, op'[p].collection, op'[p].field,
                                   cache, fks, metaRows) = Pass
          /\ (pc[p] = "hook" /\ pc'[p] # "hook")
             => pc'[p] = "tx" /\ trace'[p] = <<PreHook>>
          /\ pc[p] \in {"tx", "finally"} => runPost'[p] = runPost[p]
          /\ (pc[p] = "finally" /\ pc'[p] # "finally")
             => LET t == trace'[p]
                IN /\ Count(t, PreHook) = 1
                   /\ t[1] = PreHook /\ t[2] = <<"begin">>
                   /\ Count(t, PostHook) = IF runPost[p] THEN 1 ELSE 0
                   /\ runPost[p]
                      => /\ Position(t, Settle(t)) < Position(t, PostHook)
                         /\ Position(t, PostHook) < Position(t, CacheEvent(op[p]))
          /\ (Idle(p) /\ pc'[p] = "done"
              /\ <<op[p], outcome[p], trace[p], ret[p]>>
                    # <<op'[p], outcome'[p], trace'[p], ret'[p]>>)
             => ~Has(trace'[p], PreHook) /\ ~Has(trace'[p], PostHook)]_vars

(* An updateOne whose pre-hook asked for the post-hook and whose           *)
(* transaction rolled back: the post-hook ran, then the invalidation.      *)
C15_Witness ==
    /\ pc[1] = "done" /\ op[1].name = "updateOne" /\ runPost[1]
    /\ outcome[1].err \in {"Fault", "DbError", "TypeError"}
    /\ trace[1] = <<PreHook, <<"begin">>, <<"rollback">>, PostHook, CacheEvent(op[1])>>

CreateFailures(relation) ==
    {i \in 1..7 :
        CASE i = 1 -> relation.collection = NULL
          [] i = 2 -> relation.field = NULL
          [] i = 3 -> relation.collection \notin Collections
          [] i = 4 -> <<relation.collection, relation.field>> \notin Pairs
          [] i = 5 -> /\ relation.collection \in Collections
                      /\ relation.field = Primary(relation.collection)
          [] i = 6 -> /\ relation.related_collection # NULL
                      /\ relation.related_collection \notin Collections
          [] i = 7 -> /\ <<relation.collection, relation.field>> \in Pairs
                      /\ getRelationsForField(relation.collection, relation.field,
                                              cache, fks, metaRows) # NoRel}

CreateMessages ==
    <<"collection required", "field required", "collection does not exist",
      "field does not exist", "primary key", "related collection does not exist",
      "already has a relationship">>

(* C16: for an administrative caller createOne reports the first failing   *)
(* check in the order: collection given, field given, collection exists,   *)
(* field exists, field is not the primary key, related collection (if      *)
(* given) exists, no relation on the pair in the schema snapshot; it goes  *)
(* on to the pre-hook and the transaction iff all seven pass.              *)
C16_ValidationOrder ==
    [][\A p \in {1, 2} :
          (/\ Idle(p) /\ op'[p].name = "createOne" /\ op'[p].acc = AdminAcc
           /\ <<pc[p], op[p], outcome[p], trace[p]>> # <<pc'[p], op'[p], outcome'[p], trace'[p]>>)
          => LET failing == CreateFailures(op'[p].relation)
                 first == CHOOSE i \in failing : \A j \in failing : i <= j
             IN IF failing = {}
                THEN pc'[p] = "hook" /\ outcome'[p] = Pending
                ELSE /\ pc'[p] = "done"
                     /\ outcome'[p] = Verdict("InvalidPayload", CreateMessages[first])
                     /\ trace'[p] = <<>>]_vars

(* A payload naming a primary-key field and a related collection that does *)
(* not exist: the primary-key message, the earlier of the two, is raised.  *)
C16_Witness ==
    /\ pc[1] = "done" /\ op[1].name = "createOne" /\ op[1].acc = AdminAcc
    /\ op[1].relation.collection = "articles" /\ op[1].relation.field = "id"
    /\ op[1].relation.related_collection = "ghost"
    /\ outcome[1] = Verdict("InvalidPayload", "primary key")

(* C17: a committed updateOne of a relation with a related collection and  *)
(* a physical constraint leaves exactly one foreign key on (collection,    *)
(* field), under the name of the constraint it dropped, whose delete       *)
(* action is the payload's schema.on_delete when one is supplied and the   *)
(* action the constraint had before otherwise.                             *)
C17_DeleteActionKept ==
    [][\A p \in {1, 2} :
          (/\ Commits(p, "updateOne")
           /\ existing[p].related_collection # NULL
           /\ existing[p].schema.present)
          => LET keys == KeysFor(fks', op[p].collection, op[p].field)
                 name == IF existing[p].schema.constraint_name # NoName
                         THEN existing[p].schema.constraint_name
                         ELSE getDefaultIndexName("foreign", op[p].collection, op[p].field)
             IN /\ Cardinality(keys) = 1
                /\ \A x \in keys :
                      /\ x.name = name
                      /\ x.on_delete = IF op[p].relation.on_delete # NULL
                                       THEN op[p].relation.on_delete
                                       ELSE existing[p].schema.on_delete]_vars

(* C18: after a committed updateOne(collection, field, payload) a relation *)
(* that had a metadata row has that row, and no other, updated with the    *)
(* payload's meta; a relation that was schema-only has a metadata row      *)
(* whose owning collection and field are the arguments and whose           *)
(* one_collection is the related collection of the existing relation; for  *)
(* every payload, with or without collection, field or meta.               *)
C18_MetaRowAfterUpdate ==
    [][\A p \in {1, 2} :
          Commits(p, "updateOne") =>
             IF HasMeta(existing[p].meta)
             THEN /\ \A r \in metaRows : r.id # existing[p].meta.id => r \in metaRows'
                  /\ {r.id : r \in metaRows'} = {r.id : r \in metaRows}
                  /\ \A r \in metaRows' :
                        (r.id = existing[p].meta.id /\ op[p].relation.meta.given
                         /\ op[p].relation.meta.one_field # NULL)
                        => r.one_field = op[p].relation.meta.one_field
             ELSE \E r \in metaRows' :
                     /\ r.many_collection = op[p].collection
                     /\ r.many_field = op[p].field
                     /\ r.one_collection = existing[p].related_collection]_vars

KindsAt(stmts, k) == {i \in 1..Len(stmts) : stmts[i].k = k}

(* C19: the type fix of createOne alters the owning field to int unsigned  *)
(* iff the owning field is stored as int and the related primary key as    *)
(* int unsigned, and issues no alteration for any other pairing; the       *)
(* alteration is issued before the foreign-key creation, in the same       *)
(* transaction.                                                            *)
C19_TypeFix ==
    [][\A p \in {1, 2} :
          (Settles(p) /\ op[p].name = "createOne")
          => LET relation == op[p].relation
                 pair == <<relation.collection, relation.field>>
                 rc == relation.related_collection
                 stmts == CreateStmts(relation, dbType)
                 alters == KindsAt(stmts, "alterType")
                 fits == /\ rc # NULL
                         /\ dbType[pair] = "int"
                         /\ dbType[<<rc, Primary(rc)>>] = "int unsigned"
                 t == trace'[p]
             IN /\ alters # {} <=> fits
                /\ \A i \in alters :
                      /\ stmts[i].conn = "trx"
                      /\ <<stmts[i].c, stmts[i].f>> = pair
                      /\ stmts[i].to = "int unsigned"
                      /\ KindsAt(stmts, "foreign") # {}
                      /\ \A j \in KindsAt(stmts, "foreign") : i < j /\ stmts[j].conn = "trx"
                /\ dbType' # dbType
                   => /\ fits /\ outcome'[p].err = "none"
                      /\ dbType' = [dbType EXCEPT ![pair] = "int unsigned"]
                /\ (fits /\ outcome'[p].err = "none")
                   => /\ dbType'[pair] = "int unsigned"
                      /\ Position(t, <<"begin">>) < Position(t, <<"stmt", "alterType">>)
                      /\ Position(t, <<"stmt", "alterType">>) < Position(t, <<"stmt", "foreign">>)
                      /\ Position(t, <<"stmt", "foreign">>) < Position(t, <<"commit">>)
                /\ ~fits => ~Has(t, <<"stmt", "alterType">>)]_vars

(* A committed createOne that changed the owning field from int to int     *)
(* unsigned and then created the constraint.                               *)
C19_Witness ==
    /\ pc[1] = "done" /\ op[1].name = "createOne" /\ outcome[1].err = "ok"
    /\ Has(trace[1], <<"stmt", "alterType">>)
    /\ dbType[<<"articles", "author_id">>] = "int unsigned"
    /\ dbType[<<"authors", "id">>] = "int unsigned"
    /\ KeysFor(fks, "articles", "author_id") # {}

(* C20: when updateOne re-establishes a foreign key, the type fix compares *)
(* the storage type of the field named by the collection and field         *)
(* arguments with that of the primary key of the existing relation's       *)
(* related collection, whatever the payload carries, and a payload without *)
(* collection, field or related_collection does not make updateOne fail.   *)
C20_TypeFixFromArguments ==
    [][\A p \in {1, 2} :
          (/\ Settles(p) /\ op[p].name = "updateOne"
           /\ existing[p].related_collection \in Collections)
          => LET rc == existing[p].related_collection
                 stmts == UpdateStmts(op[p].collection, op[p].field, op[p].relation,
                                      existing[p], dbType)
                 fits == /\ dbType[<<op[p].collection, op[p].field>>] = "int"
                         /\ dbType[<<rc, Primary(rc)>>] = "int unsigned"
             IN /\ KindsAt(stmts, "alterType") # {} <=> fits
                /\ KindsAt(stmts, "throw") = {}
                /\ outcome'[p].err # "TypeError"]_vars

====
